---- MODULE Spec2Model ----
(***************************************************************************)
(* Incident-processing pipeline of the Kubernetes AIOps Evidence Graph:    *)
(* the alert gateway with its Redis-backed fingerprint and rate-limit      *)
(* stores, the remediation executor, and the durable incident workflow.    *)
(***************************************************************************)
EXTENDS Integers, Sequences, FiniteSets, TLC

(***************************************************************************)
(* Bounds of the model.  Time is counted in abstract ticks; the two        *)
(* durations below are the code's durations scaled to ticks.               *)
(***************************************************************************)
MaxTime == 2
MaxRequests == 3
MaxAlerts == 2
MaxApiCalls == 3
MaxEvidence == 1
\* AlertDeduplicator.FINGERPRINT_TTL (timedelta(hours=4)), in ticks
FINGERPRINT_TTL == 2
\* RateLimiter.check_rate_limit window_seconds (default 60), in ticks
window_seconds == 2
\* settings.rate_limit_per_minute (default 100), scaled down
rate_limit_per_minute == 2

None == "None"

(***************************************************************************)
(* State.                                                                  *)
(*   gateway: now, redisUp, fpStore, rateStore, incidents, workflows,      *)
(*            requests, response, apiCalls, last, storeFailed              *)
(***************************************************************************)
VARIABLES
    now,          \* wall clock, in ticks
    redisUp,      \* whether the Redis server answers
    fpStore,      \* Redis keys aiops:fingerprint:<fp> -> [value, expires]
    rateStore,    \* Redis keys aiops:ratelimit:<key> -> [count, expires]
    incidents,    \* rows of the incidents table
    workflows,    \* ids of the incidents whose workflow was started
    requests,     \* webhook requests handled so far: [client, at, created]
    response,     \* response of the last webhook request
    apiCalls,     \* number of direct calls of the store API so far
    last,         \* the last call of the store API and what it returned
    storeFailed   \* history: the Redis server has failed at least once

gatewayVars == <<now, redisUp, fpStore, rateStore, incidents, workflows,
                 requests, response, apiCalls, last, storeFailed>>


(***************************************************************************)
(* Alerts as Alertmanager posts them (labels reduced to those the          *)
(* normalizer reads).                                                      *)
(***************************************************************************)
AlertNames == {"PodCrashLooping"}
Namespaces == {"default"}
Services == {None, "api"}
Pods == {None}
Clients == {"10.0.0.1"}

Alerts == [status : {"firing", "resolved"}, alertname : AlertNames,
           namespace : Namespaces, service : Services, pod : Pods]

Payloads == UNION {[1..n -> Alerts] : n \in 1..MaxAlerts}

\* hashlib.sha256(key).hexdigest()[:32] of "<source>:<alertname>:<ns>:<service>":
\* the digest is represented by the key it hashes (distinct keys, distinct digests)
_generate_fingerprint(source, alertname, namespace, service) ==
    <<source, alertname, namespace, service>>

normalize_alertmanager(alert) ==
    LET service == alert.service
        pod == alert.pod
    IN [fingerprint |-> _generate_fingerprint(
                            "alertmanager", alert.alertname, alert.namespace,
                            IF service # None THEN service
                            ELSE IF pod # None THEN pod ELSE ""),
        title |-> IF pod # None THEN <<alert.alertname, pod>>
                  ELSE IF service # None THEN <<alert.alertname, service>>
                  ELSE <<alert.alertname>>,
        namespace |-> alert.namespace,
        service |-> service]

Fingerprints == {normalize_alertmanager(a).fingerprint : a \in Alerts}

(***************************************************************************)
(* Redis: a key answers while it is present and not expired.               *)
(***************************************************************************)
NoKey == [value |-> None, expires |-> 0]

\* GET: the value of a live key, else None
RedisGet(store, key) ==
    IF store[key].value # None /\ now < store[key].expires
    THEN store[key].value ELSE None

(***************************************************************************)
(* AlertDeduplicator (deduplicator.py).  Every method returns a record     *)
(* whose field raised tells whether an exception left the method.          *)
(***************************************************************************)
\* check_duplicate without its except branch
check_duplicate_raises(fingerprint) ==
    IF ~redisUp
    THEN [raised |-> TRUE, is_duplicate |-> FALSE, existing_id |-> None]
    ELSE LET existing_id == RedisGet(fpStore, fingerprint)
         IN IF existing_id # None
            THEN [raised |-> FALSE, is_duplicate |-> TRUE, existing_id |-> existing_id]
            ELSE [raised |-> FALSE, is_duplicate |-> FALSE, existing_id |-> None]

check_duplicate(fingerprint) ==
    IF ~redisUp
    THEN \* except Exception: fail open
         [raised |-> FALSE, is_duplicate |-> FALSE, existing_id |-> None]
    ELSE LET existing_id == RedisGet(fpStore, fingerprint)
         IN IF existing_id # None
            THEN [raised |-> FALSE, is_duplicate |-> TRUE, existing_id |-> existing_id]
            ELSE [raised |-> FALSE, is_duplicate |-> FALSE, existing_id |-> None]

\* the store after register_fingerprint (client.set(key, incident_id, ex=ttl))
register_fingerprint(fingerprint, incident_id) ==
    IF ~redisUp THEN fpStore
    ELSE [fpStore EXCEPT ![fingerprint] =
            [value |-> incident_id, expires |-> now + FINGERPRINT_TTL]]

remove_fingerprint(fingerprint) ==
    IF ~redisUp THEN fpStore
    ELSE [fpStore EXCEPT ![fingerprint] = NoKey]

extend_fingerprint(fingerprint) ==
    IF ~redisUp THEN fpStore
    ELSE IF RedisGet(fpStore, fingerprint) # None
         THEN [fpStore EXCEPT ![fingerprint].expires = now + FINGERPRINT_TTL]
         ELSE fpStore

(***************************************************************************)
(* RateLimiter.check_rate_limit: INCR then EXPIRE in one pipeline.         *)
(***************************************************************************)
RateCount(key) ==
    IF rateStore[key].count > 0 /\ now < rateStore[key].expires
    THEN rateStore[key].count ELSE 0

check_rate_limit(key, limit) ==
    IF ~redisUp
    THEN \* except Exception: fail open
         [raised |-> FALSE, is_allowed |-> TRUE, remaining |-> limit, store |-> rateStore]
    ELSE LET current_count == RateCount(key) + 1
             remaining == IF limit - current_count > 0 THEN limit - current_count ELSE 0
         IN [raised |-> FALSE,
             is_allowed |-> current_count <= limit,
             remaining |-> remaining,
             store |-> [rateStore EXCEPT ![key] =
                          [count |-> current_count, expires |-> now + window_seconds]]]

(***************************************************************************)
(* The Alertmanager webhook (ingestion/main.py).                           *)
(***************************************************************************)
\* Incident(...): the id is a fresh uuid4, represented by the fingerprint and
\* the ordinal of the row among the rows of that fingerprint
NewIncident(rows, incident_data) ==
    [id |-> <<incident_data.fingerprint,
              Cardinality({r \in rows : r.fingerprint = incident_data.fingerprint}) + 1>>,
     fingerprint |-> incident_data.fingerprint,
     created_at |-> now]

\* create_incident: INSERT INTO incidents
create_incident(rows, incident_data) ==
    rows \cup {NewIncident(rows, incident_data)}

\* the for-loop of the handler over payload["alerts"]
RECURSIVE WebhookLoop(_, _)
WebhookLoop(alerts, acc) ==
    IF alerts = <<>> \/ acc.raised THEN acc
    ELSE LET alert == Head(alerts)
             incident_data == normalize_alertmanager(alert)
             dup == check_duplicate(incident_data.fingerprint)
         IN IF alert.status # "firing" THEN WebhookLoop(Tail(alerts), acc)
            ELSE IF dup.raised THEN [acc EXCEPT !.raised = TRUE]
            ELSE IF dup.is_duplicate
                 THEN WebhookLoop(Tail(alerts), [acc EXCEPT !.deduplicated = @ + 1])
            ELSE WebhookLoop(Tail(alerts),
                     [acc EXCEPT !.rows = create_incident(acc.rows, incident_data),
                                 !.created = Append(@, NewIncident(acc.rows, incident_data).id)])

Firing(payload) == {i \in DOMAIN payload : payload[i].status = "firing"}

\* POST /api/v1/webhooks/alertmanager; an exception inside the handler becomes
\* HTTP 500.  The background tasks (trigger_incident_workflow, one per created
\* incident) run when the response has been sent.
alertmanager_webhook(client, payload) ==
    /\ Len(requests) < MaxRequests
    /\ LET acc == WebhookLoop(payload, [rows |-> incidents, created |-> <<>>,
                                         deduplicated |-> 0, raised |-> FALSE])
           ids == {acc.created[i] : i \in DOMAIN acc.created}
       IN /\ incidents' = acc.rows
          /\ response' = [status |-> IF acc.raised THEN "500" ELSE "accepted",
                          incidents_created |-> IF acc.raised THEN 0 ELSE Len(acc.created),
                          deduplicated |-> acc.deduplicated,
                          firing |-> Cardinality(Firing(payload)),
                          store_ok |-> redisUp]
          /\ workflows' = IF acc.raised THEN workflows ELSE workflows \cup ids
          /\ requests' = Append(requests, [client |-> client, at |-> now,
                                           created |-> Len(acc.created)])
    /\ UNCHANGED <<now, redisUp, fpStore, rateStore, apiCalls, last, storeFailed>>

(***************************************************************************)
(* Environment of the gateway.                                             *)
(***************************************************************************)
Tick ==
    /\ now < MaxTime
    /\ now' = now + 1
    /\ UNCHANGED <<redisUp, fpStore, rateStore, incidents, workflows, requests,
                   response, apiCalls, last, storeFailed>>

RedisFails ==
    /\ redisUp
    /\ redisUp' = FALSE
    /\ storeFailed' = TRUE
    /\ UNCHANGED <<now, fpStore, rateStore, incidents, workflows, requests,
                   response, apiCalls, last>>

RedisRecovers ==
    /\ ~redisUp
    /\ redisUp' = TRUE
    /\ UNCHANGED <<now, fpStore, rateStore, incidents, workflows, requests,
                   response, apiCalls, last, storeFailed>>

(***************************************************************************)
(* Direct calls of the store API (the public class methods of              *)
(* deduplicator.py), by any caller.                                        *)
(***************************************************************************)
CallCheckDuplicate(fp) ==
    /\ Len(requests) + apiCalls < MaxApiCalls
    /\ apiCalls' = apiCalls + 1
    /\ last' = [op |-> "check_duplicate", store_ok |-> redisUp,
                ret |-> check_duplicate(fp)]
    /\ UNCHANGED <<now, redisUp, fpStore, rateStore, incidents, workflows,
                   requests, response, storeFailed>>

CallRegisterFingerprint(fp, id) ==
    /\ Len(requests) + apiCalls < MaxApiCalls
    /\ apiCalls' = apiCalls + 1
    /\ fpStore' = register_fingerprint(fp, id)
    /\ last' = [op |-> "register_fingerprint", store_ok |-> redisUp,
                ret |-> [raised |-> FALSE, ok |-> redisUp]]
    /\ UNCHANGED <<now, redisUp, rateStore, incidents, workflows, requests,
                   response, storeFailed>>

CallCheckRateLimit(key) ==
    /\ Len(requests) + apiCalls < MaxApiCalls
    /\ apiCalls' = apiCalls + 1
    /\ LET r == check_rate_limit(key, rate_limit_per_minute)
       IN /\ rateStore' = r.store
          /\ last' = [op |-> "check_rate_limit", store_ok |-> redisUp,
                      ret |-> [raised |-> r.raised, is_allowed |-> r.is_allowed,
                               remaining |-> r.remaining]]
    /\ UNCHANGED <<now, redisUp, fpStore, incidents, workflows, requests,
                   response, storeFailed>>

(***************************************************************************)
(* The durable incident workflow (workflow/incident_workflow.py) and the   *)
(* activities it awaits (workflow/activities.py).  One action is the code  *)
(* of run() between two awaits: it takes the outcome of the activity that  *)
(* was awaited and runs up to the next await, so that the states of the    *)
(* model are the states a query can observe.                               *)
(***************************************************************************)
Activities == {"collect_all_evidence", "build_evidence_graph", "generate_hypotheses",
               "rank_hypotheses", "generate_runbook", "calculate_blast_radius",
               "evaluate_remediation_policy", "request_approval",
               "execute_remediation", "verify_remediation", "create_ticket",
               "close_incident"}

\* retry_policy=default_retry in run()
DefaultRetryActivities == {"collect_all_evidence", "build_evidence_graph",
                           "generate_hypotheses", "execute_remediation",
                           "verify_remediation"}

\* RetryPolicy(maximum_attempts=3), both policies
maximum_attempts == 3

\* default_retry.non_retryable_error_types; quick_retry names none
non_retryable_error_types(activity) ==
    IF activity \in DefaultRetryActivities THEN {"ValueError", "TypeError"} ELSE {}

\* what an attempt of an activity can fail with: a timeout or a transient
\* error, or a TypeError (as when an activity awaits the result of a
\* synchronous call, e.g. RulesEngine.generate_hypotheses)
ErrorTypes == {"TimeoutError", "TypeError"}

\* a dict read with .get(key, default)
Get(d, key, default) == IF key \in d.keys THEN d[key] ELSE default

(*************************** activity results ******************************)
HypBadDeployment ==
    [rule_id |-> "crashloop_recent_deploy", category |-> "bad_deployment",
     recommended_actions |-> <<"rollback_deployment",
                               "Check application logs for startup errors",
                               "Review recent code changes in the deployment">>,
     rank |-> 0]

HypOomKilled ==
    [rule_id |-> "oom_killed", category |-> "resource_exhaustion",
     recommended_actions |-> <<"Increase memory limits if appropriate",
                               "Check for memory leaks in application",
                               "Review memory usage patterns",
                               "restart_deployment">>,
     rank |-> 0]

HypUnknown ==
    [rule_id |-> "unknown", category |-> "unknown",
     recommended_actions |-> <<"Review application logs",
                               "Check recent deployments",
                               "Verify external dependencies",
                               "Escalate to engineering team">>,
     rank |-> 1]

\* lists the generate_hypotheses activity returns
HypothesisLists == {<<HypBadDeployment>>, <<HypOomKilled, HypBadDeployment>>,
                    <<HypUnknown>>}

\* the rank_hypotheses activity returns the list in some order, rank = 1..N
RankedLists(hypotheses) ==
    {[i \in 1..Len(hypotheses) |-> [hypotheses[p[i]] EXCEPT !.rank = i]] :
        p \in Permutations(1..Len(hypotheses))}

\* settings.remediation_max_blast_radius
remediation_max_blast_radius == 50

\* results of the calculate_blast_radius activity: the score of the success
\* path with its is_acceptable flag, or score 100 on error
BlastRadiusScores == {15, 75, 100}

BlastRadiusResult(score) ==
    [score |-> score, is_acceptable |-> score < remediation_max_blast_radius]

\* what the policy endpoint answers: an error (unreachable, HTTP error status,
\* unparsable body) or a result object with any of its keys missing
OPAResponses ==
    {[kind |-> "error", keys |-> {}, allow |-> FALSE, requires_approval |-> FALSE]}
    \cup [kind : {"result"}, keys : SUBSET {"allow", "requires_approval"},
          allow : BOOLEAN, requires_approval : BOOLEAN]

\* OPAClient.evaluate_remediation without the fail-closed except branch
opa_evaluate_remediation_fail_open(opa_response) ==
    IF opa_response.kind = "error"
    THEN [allow |-> TRUE, requires_approval |-> FALSE, reason |-> "allowed"]
    ELSE LET allow == Get(opa_response, "allow", FALSE)
         IN [allow |-> allow,
             requires_approval |-> Get(opa_response, "requires_approval", TRUE),
             reason |-> IF allow THEN "allowed" ELSE "policy denied"]

\* OPAClient.evaluate_remediation
opa_evaluate_remediation(opa_response) ==
    IF opa_response.kind = "error"
    THEN \* except Exception: fail closed
         [allow |-> FALSE, requires_approval |-> TRUE,
          reason |-> "Policy evaluation error"]
    ELSE LET allow == Get(opa_response, "allow", FALSE)
         IN [allow |-> allow,
             requires_approval |-> Get(opa_response, "requires_approval", TRUE),
             reason |-> IF allow THEN "allowed" ELSE "policy denied"]

\* the evaluate_remediation_policy activity
evaluate_remediation_policy(hypotheses, blast_radius_, opa_response) ==
    IF hypotheses = <<>>
    THEN [keys |-> {"allowed", "reason"}, allowed |-> FALSE,
          requires_approval |-> FALSE, proposed_action |-> None,
          reason |-> "No hypothesis available"]
    ELSE IF hypotheses[1].recommended_actions = <<>>
    THEN [keys |-> {"allowed", "reason"}, allowed |-> FALSE,
          requires_approval |-> FALSE, proposed_action |-> None,
          reason |-> "No action recommended"]
    ELSE LET policy == opa_evaluate_remediation(opa_response)
         IN [keys |-> {"allowed", "requires_approval", "proposed_action", "reason"},
             allowed |-> policy.allow,
             requires_approval |-> policy.requires_approval,
             proposed_action |-> hypotheses[1].recommended_actions[1],
             reason |-> policy.reason]

\* what the approver does with a posted request within the 4 hours
ApproverAnswers == {"approve", "reject", "none"}

\* SlackClient.request_approval: configured tells whether slack_bot_token and
\* slack_approval_channel are set, post_ok whether chat_postMessage succeeded;
\* it returns right after posting, without reading any answer
slack_request_approval(configured, post_ok) ==
    IF ~configured
    THEN [approved |-> FALSE, pending |-> FALSE, reason |-> "Slack not configured"]
    ELSE IF post_ok
    THEN [approved |-> FALSE, pending |-> TRUE, reason |-> None]
    ELSE [approved |-> FALSE, pending |-> FALSE, reason |-> "error"]

\* the request_approval activity
request_approval(settings_, configured, post_ok) ==
    IF settings_.app_env = "development"
    THEN [approved |-> TRUE, approver |-> "auto_dev"]
    ELSE LET approval == slack_request_approval(configured, post_ok)
         IN [approved |-> approval.approved, approver |-> None]

\* the status the close_incident activity writes to the incidents table
close_incident_always_resolved(result_) == "resolved"

close_incident(result_) ==
    IF Get(result_, "verification_success", FALSE) THEN "resolved" ELSE "closed"

\* RemediationOrchestrator.propose_action: the idempotency key
idempotency_key(incident_id, action_type, target_resource, hour) ==
    <<incident_id, action_type, target_resource, hour>>

(****************************** state **************************************)
VARIABLES
    settings,      \* [app_env, remediation_auto_approve_dev]
    pc,            \* the activity run() awaits; "start", "sleep", "returned"
    attempt,       \* number of the current attempt of that activity
    self,          \* the workflow object: the fields the queries return
    result,        \* the result dict of run()
    locals,        \* ranked_hypotheses, blast_radius, policy_result of run()
    statusSeen,    \* history: the values of self._status at the awaits, in order
    mutations,     \* history: idempotency keys of the cluster mutations applied
    incidentRow,   \* status column of the incident's row
    opaResponse,   \* history: what the policy endpoint answered
    failed_activity, \* history: the activity whose failure ended the run
    chat           \* history: the approval request in the chat sink and its answer

workflowVars == <<settings, pc, attempt, self, result, locals,
                  statusSeen, mutations, incidentRow, opaResponse,
                  failed_activity, chat>>

\* the incident the run is about
TheIncident == [id |-> "incident-1", service |-> "api", hour |-> "2026010505"]

\* the policy endpoint has not been asked
NoResponse == [kind |-> "none", keys |-> {}, allow |-> FALSE,
               requires_approval |-> FALSE]

NoPolicy == [keys |-> {}, allowed |-> FALSE, requires_approval |-> FALSE,
             proposed_action |-> None, reason |-> None]

WorkflowInit ==
    /\ settings \in [app_env : {"development", "production"},
                    remediation_auto_approve_dev : BOOLEAN]
    /\ pc = "start"
    /\ attempt = 0
    /\ self = [status |-> "initialized", hypotheses |-> <<>>,
               evidence_count |-> 0, remediation_result |-> None]
    /\ result = [keys |-> {}, status |-> "started", steps_completed |-> <<>>,
                 remediation_allowed |-> FALSE, requires_approval |-> FALSE,
                 approval_granted |-> FALSE, remediation_success |-> FALSE,
                 verification_success |-> FALSE, metrics_improved |-> FALSE]
    /\ locals = [ranked_hypotheses |-> <<>>, blast_radius |-> BlastRadiusResult(100),
                 policy_result |-> NoPolicy]
    /\ statusSeen = <<"initialized">>
    /\ mutations = <<>>
    /\ incidentRow = "open"
    /\ opaResponse = NoResponse
    /\ failed_activity = None
    /\ chat = [configured |-> FALSE, posted |-> FALSE, answer |-> "none"]

\* workflow.execute_activity(name, ...): the first attempt starts
Schedule(name) ==
    /\ pc' = name
    /\ attempt' = 1

\* self._status = s1; ...; self._status = sn, with no await in between: the
\* last value is the one a query can see
SetStatus(values) ==
    /\ self' = [self EXCEPT !.status = values[Len(values)]]
    /\ statusSeen' = Append(statusSeen, values[Len(values)])

Step(name) == [result EXCEPT !.steps_completed = Append(@, name)]

(****************************** run() **************************************)
\* Step 1, up to the await of collect_all_evidence
run_start ==
    /\ pc = "start"
    /\ SetStatus(<<"collecting_evidence">>)
    /\ Schedule("collect_all_evidence")
    /\ UNCHANGED <<settings, result, locals, mutations, incidentRow, opaResponse, failed_activity, chat>>

\* Steps 2-3
collect_all_evidence_returns(total_evidence) ==
    /\ pc = "collect_all_evidence"
    /\ self' = [self EXCEPT !.evidence_count = total_evidence,
                            !.status = "building_graph"]
    /\ statusSeen' = Append(statusSeen, "building_graph")
    /\ result' = Step("evidence_collection")
    /\ Schedule("build_evidence_graph")
    /\ UNCHANGED <<settings, locals, mutations, incidentRow, opaResponse, failed_activity, chat>>

\* Steps 3-4
build_evidence_graph_returns ==
    /\ pc = "build_evidence_graph"
    /\ result' = Step("graph_building")
    /\ SetStatus(<<"analyzing">>)
    /\ Schedule("generate_hypotheses")
    /\ UNCHANGED <<settings, locals, mutations, incidentRow, opaResponse, failed_activity, chat>>

\* Steps 4-5
generate_hypotheses_returns(hypotheses) ==
    /\ pc = "generate_hypotheses"
    /\ self' = [self EXCEPT !.hypotheses = hypotheses]
    /\ result' = Step("hypothesis_generation")
    /\ Schedule("rank_hypotheses")
    /\ UNCHANGED <<settings, locals, statusSeen, mutations, incidentRow, opaResponse, failed_activity, chat>>

\* Steps 5-6
rank_hypotheses_returns(ranked_hypotheses) ==
    /\ pc = "rank_hypotheses"
    /\ locals' = [locals EXCEPT !.ranked_hypotheses = ranked_hypotheses]
    /\ result' = Step("hypothesis_ranking")
    /\ SetStatus(<<"generating_runbook">>)
    /\ Schedule("generate_runbook")
    /\ UNCHANGED <<settings, mutations, incidentRow, opaResponse, failed_activity, chat>>

\* Steps 6-7
generate_runbook_returns ==
    /\ pc = "generate_runbook"
    /\ result' = Step("runbook_generation")
    /\ Schedule("calculate_blast_radius")
    /\ UNCHANGED <<settings, self, locals, statusSeen, mutations, incidentRow, opaResponse, failed_activity, chat>>

\* Steps 7-8
calculate_blast_radius_returns(blast_radius_) ==
    /\ pc = "calculate_blast_radius"
    /\ locals' = [locals EXCEPT !.blast_radius = blast_radius_]
    /\ SetStatus(<<"evaluating_policy">>)
    /\ Schedule("evaluate_remediation_policy")
    /\ UNCHANGED <<settings, result, mutations, incidentRow, opaResponse, failed_activity, chat>>

\* needs_ticket without the remediation_success disjunct
needs_ticket_ignores_remediation(policy_result, result_) ==
    \/ ~Get(policy_result, "allowed", FALSE)
    \/ ~Get(result_, "verification_success", TRUE)

\* Step 11: needs_ticket
needs_ticket(policy_result, result_) ==
    \/ ~Get(policy_result, "allowed", FALSE)
    \/ ~Get(result_, "verification_success", TRUE)
    \/ ~Get(result_, "remediation_success", TRUE)

\* Steps 8-9, and 11-12 when the policy does not allow
evaluate_remediation_policy_returns(opa_response) ==
    /\ pc = "evaluate_remediation_policy"
    /\ opaResponse' = IF locals.ranked_hypotheses = <<>> THEN opaResponse
                      ELSE opa_response
    /\ LET policy_result == evaluate_remediation_policy(
                                locals.ranked_hypotheses, locals.blast_radius, opa_response)
           result1 == [Step("policy_evaluation") EXCEPT
                          !.keys = @ \cup {"remediation_allowed", "requires_approval"},
                          !.remediation_allowed = Get(policy_result, "allowed", FALSE),
                          !.requires_approval =
                               Get(policy_result, "requires_approval", TRUE)]
       IN /\ locals' = [locals EXCEPT !.policy_result = policy_result]
          /\ result' = result1
          /\ IF Get(policy_result, "allowed", FALSE)
             THEN /\ SetStatus(<<"remediating">>)
                  /\ IF Get(policy_result, "requires_approval", FALSE)
                     THEN Schedule("request_approval")
                     ELSE Schedule("execute_remediation")
             ELSE IF needs_ticket(policy_result, result1)
             THEN /\ SetStatus(<<"creating_ticket">>)
                  /\ Schedule("create_ticket")
             ELSE /\ SetStatus(<<"closing">>)
                  /\ Schedule("close_incident")
    /\ UNCHANGED <<settings, mutations, incidentRow, failed_activity, chat>>

\* Step 9 after the approval activity
request_approval_returns(configured, post_ok, answer) ==
    /\ pc = "request_approval"
    /\ chat' = IF settings.app_env = "development" THEN chat
               ELSE [configured |-> configured,
                     posted |-> configured /\ post_ok,
                     answer |-> IF configured /\ post_ok THEN answer ELSE "none"]
    /\ LET approval_result == request_approval(settings, configured, post_ok)
           result1 == [result EXCEPT
                          !.keys = @ \cup {"approval_requested", "approval_granted"},
                          !.approval_granted = approval_result.approved]
       IN IF ~approval_result.approved
          THEN LET policy_result == [locals.policy_result EXCEPT !.allowed = FALSE]
                   result2 == [result1 EXCEPT
                                  !.steps_completed = Append(@, "approval_denied")]
               IN /\ locals' = [locals EXCEPT !.policy_result = policy_result]
                  /\ result' = result2
                  /\ IF needs_ticket(policy_result, result2)
                     THEN /\ SetStatus(<<"approval_denied", "creating_ticket">>)
                          /\ Schedule("create_ticket")
                     ELSE /\ SetStatus(<<"approval_denied", "closing">>)
                          /\ Schedule("close_incident")
          ELSE /\ result' = result1
               /\ Schedule("execute_remediation")
               /\ UNCHANGED <<locals, self, statusSeen>>
    /\ UNCHANGED <<settings, mutations, incidentRow, opaResponse, failed_activity>>

TheKey == idempotency_key(TheIncident.id, locals.policy_result.proposed_action,
                          TheIncident.service, TheIncident.hour)

\* Step 9 after execute_remediation, up to workflow.sleep; a handler that
\* reports success has applied its mutation
execute_remediation_returns(success) ==
    /\ pc = "execute_remediation"
    /\ mutations' = IF success THEN Append(mutations, TheKey) ELSE mutations
    /\ self' = [self EXCEPT !.remediation_result = [success |-> success],
                            !.status = "verifying"]
    /\ statusSeen' = Append(statusSeen, "verifying")
    /\ result' = [Step("remediation_executed") EXCEPT
                     !.keys = @ \cup {"remediation_success"},
                     !.remediation_success = success]
    /\ pc' = "sleep"
    /\ UNCHANGED <<settings, attempt, locals, incidentRow, opaResponse, failed_activity, chat>>

\* Step 10: the timer fires
sleep_returns ==
    /\ pc = "sleep"
    /\ Schedule("verify_remediation")
    /\ UNCHANGED <<settings, self, result, locals, statusSeen, mutations, incidentRow, opaResponse, failed_activity, chat>>

\* Steps 10-12
verify_remediation_returns(success, metrics_improved) ==
    /\ pc = "verify_remediation"
    /\ LET result1 == [Step("verification") EXCEPT
                          !.keys = @ \cup {"verification_success", "metrics_improved"},
                          !.verification_success = success,
                          !.metrics_improved = metrics_improved]
       IN /\ result' = result1
          /\ IF needs_ticket(locals.policy_result, result1)
             THEN /\ SetStatus(<<"creating_ticket">>)
                  /\ Schedule("create_ticket")
             ELSE /\ SetStatus(<<"closing">>)
                  /\ Schedule("close_incident")
    /\ UNCHANGED <<settings, locals, mutations, incidentRow, opaResponse, failed_activity, chat>>

\* Steps 11-12
create_ticket_returns ==
    /\ pc = "create_ticket"
    /\ result' = Step("ticket_created")
    /\ SetStatus(<<"closing">>)
    /\ Schedule("close_incident")
    /\ UNCHANGED <<settings, locals, mutations, incidentRow, opaResponse, failed_activity, chat>>

\* Step 12: the close_incident activity has committed its UPDATE
close_incident_returns ==
    /\ pc = "close_incident"
    /\ incidentRow' = close_incident(result)
    /\ result' = [Step("incident_closed") EXCEPT !.status = "completed"]
    /\ SetStatus(<<"completed">>)
    /\ pc' = "returned"
    /\ UNCHANGED <<settings, attempt, locals, mutations, opaResponse, failed_activity, chat>>

\* the value of self._status the except block of run() assigns
FailedStatus == "failed: Activity task failed"

\* what an attempt of the awaited activity did before it failed: an attempt of
\* execute_remediation may have mutated the cluster, an attempt of
\* close_incident may have committed its UPDATE
AttemptEffect(effect) ==
    /\ effect => pc \in {"execute_remediation", "close_incident"}
    /\ mutations' = IF effect /\ pc = "execute_remediation"
                    THEN Append(mutations, TheKey) ELSE mutations
    /\ incidentRow' = IF effect /\ pc = "close_incident"
                      THEN close_incident(result) ELSE incidentRow

\* an attempt of the awaited activity fails and the retry policy starts the
\* next one
ActivityRetried(error_type, effect) ==
    /\ pc \in Activities
    /\ error_type \notin non_retryable_error_types(pc)
    /\ attempt < maximum_attempts
    /\ AttemptEffect(effect)
    /\ attempt' = attempt + 1
    /\ UNCHANGED <<settings, pc, self, result, locals, statusSeen, opaResponse,
                   failed_activity, chat>>

\* the last attempt fails: ActivityError reaches the except block of run()
ActivityFailed(error_type, effect) ==
    /\ pc \in Activities
    /\ error_type \in non_retryable_error_types(pc) \/ attempt = maximum_attempts
    /\ AttemptEffect(effect)
    /\ SetStatus(<<FailedStatus>>)
    /\ result' = [result EXCEPT !.status = "failed", !.keys = @ \cup {"error"}]
    /\ failed_activity' = pc
    /\ pc' = "returned"
    /\ UNCHANGED <<settings, attempt, locals, opaResponse, chat>>

(***************************************************************************)
(* The library functions of the pipeline, called on their own: the         *)
(* verifier, the ranker, the rules engine and the normalizer.  The         *)
(* variable call holds the call made, its arguments and what it returned.  *)
(***************************************************************************)
VARIABLES call

functionVars == <<call>>

FunctionsInit == call = [op |-> "none"]

(************************* Python values ***********************************)
\* bool(v) for a bool or an int
Truthy(v) == IF v.type = "bool" THEN v.value ELSE v.value # 0

PyBool(b) == [type |-> "bool", value |-> b]

PyInt(n) == [type |-> "int", value |-> n]

\* a or b, a and b: the operand that decides, not its truth value
PyOr(a, b) == IF Truthy(a) THEN a ELSE b

PyAnd(a, b) == IF Truthy(a) THEN b ELSE a

\* d.get(key, False) of a dict of Python values
PyGet(d, key) == IF key \in DOMAIN d THEN d[key] ELSE PyBool(FALSE)

(************************ RemediationVerifier ******************************)
MaxPods == 2

PodStates == [phase : {"Running", "Pending"}, ready : {"True", "False", "absent"}]

\* what list_namespaced_pod answers: the pods, or an error
PodListings == {[error |-> TRUE, items |-> <<>>]}
               \cup {[error |-> FALSE, items |-> items] :
                       items \in UNION {[1..n -> PodStates] : n \in 0..MaxPods}}

\* what _check_error_rate and _check_restart_rate return
RateProbes == {"improved", "not_improved", "error"}

RateResult(probe) ==
    IF probe = "error" THEN [error |-> "error"]
    ELSE [improved |-> PyBool(probe = "improved")]

_is_pod_healthy(pod) ==
    IF pod.phase # "Running" THEN FALSE
    ELSE IF pod.ready \notin {"True", "absent"} THEN FALSE
    ELSE TRUE

_check_pod_health(listing) ==
    IF listing.error THEN [error |-> "error"]
    ELSE LET total == Len(listing.items)
             healthy == Cardinality({i \in 1..total : _is_pod_healthy(listing.items[i])})
         IN [total |-> PyInt(total), healthy |-> PyInt(healthy),
             all_healthy |-> PyBool(healthy = total)]

\* RemediationVerifier.verify
verify(error_probe, restart_probe, listing) ==
    LET error_rate == RateResult(error_probe)
        restart_rate == RateResult(restart_probe)
        pod_health == _check_pod_health(listing)
        metrics_improved == PyOr(PyOr(PyGet(error_rate, "improved"),
                                      PyGet(restart_rate, "improved")),
                                 PyGet(pod_health, "healthy"))
    IN [success |-> PyAnd(metrics_improved, PyGet(pod_health, "healthy")),
        metrics_improved |-> metrics_improved]

CallVerify(error_probe, restart_probe, listing) ==
    /\ call.op = "none"
    /\ call' = [op |-> "verify", error_probe |-> error_probe,
                restart_probe |-> restart_probe, listing |-> listing,
                ret |-> verify(error_probe, restart_probe, listing)]

(************************** HypothesisRanker *******************************)
\* Numbers: confidence and signal_strength in thousandths, category weights
\* in hundredths, final_score in ten-thousandths (round(score, 4)).
MaxHypotheses == 3

\* round(n / d) to the nearest integer, halves to the even one
Round(n, d) ==
    LET q == n \div d
        r == n % d
    IN IF 2 * r < d THEN q
       ELSE IF 2 * r > d THEN q + 1
       ELSE IF q % 2 = 0 THEN q ELSE q + 1

\* Round(x * y, 1000000) for x * y beyond 32 bits (x < 2^31 / 1000, y < 2^31 / x)
RoundMillionth(x, y) ==
    LET n1 == (x \div 1000) * y
        n0 == (x % 1000) * y
        m == n1 + (n0 \div 1000)
        exact == n0 % 1000 = 0
        q == m \div 1000
        r == m % 1000
    IN IF r < 500 THEN q
       ELSE IF r > 500 \/ ~exact THEN q + 1
       ELSE IF q % 2 = 0 THEN q ELSE q + 1

Min(a, b) == IF a <= b THEN a ELSE b

\* category_weights.get(category, 1.0)
category_weight(category) ==
    CASE category = "resource_exhaustion" -> 120
      [] category = "bad_deployment" -> 115
      [] category = "configuration_error" -> 110
      [] category = "infrastructure_issue" -> 105
      [] category = "dependency_failure" -> 100
      [] category = "network_issue" -> 95
      [] category = "scaling_issue" -> 90
      [] category = "security_issue" -> 85
      [] category = "external_dependency" -> 80
      [] category = "data_issue" -> 75
      [] category = "unknown" -> 50
      [] OTHER -> 100

\* h["final_score"]: confidence * weight * (1 + 0.05 * min(support, 5))
\*                   * (1 + 0.2 * signal_strength), rounded to 4 places
final_score(h) ==
    RoundMillionth(h.confidence * category_weight(h.category)
                     * (20 + Min(h.support_count, 5)),
                   5000 + h.signal_strength)

\* hypotheses the ranker is called with
RankerHypotheses ==
    [rule_id : {"rule_a", "rule_b"}, category : {"unknown", "bad_deployment"},
     confidence : {1, 300}, support_count : {0, 2}, signal_strength : {0},
     rank : {0}]

RankerInputs == UNION {[1..n -> RankerHypotheses] : n \in 0..MaxHypotheses}

\* position of x in a list sorted by score descending: before the equal ones
RECURSIVE InsertBeforeEqual(_, _)
InsertBeforeEqual(sorted, x) ==
    IF sorted = <<>> THEN <<x>>
    ELSE IF sorted[1].final_score > x.final_score
    THEN <<sorted[1]>> \o InsertBeforeEqual(Tail(sorted), x)
    ELSE <<x>> \o sorted

\* position of x in a list sorted by score descending: after the equal ones
RECURSIVE InsertDescending(_, _)
InsertDescending(sorted, x) ==
    IF sorted = <<>> THEN <<x>>
    ELSE IF sorted[1].final_score >= x.final_score
    THEN <<sorted[1]>> \o InsertDescending(Tail(sorted), x)
    ELSE <<x>> \o sorted

\* ranked.sort(key=final_score, reverse=True): stable
RECURSIVE SortDescending(_)
SortDescending(list) ==
    IF list = <<>> THEN <<>>
    ELSE InsertDescending(SortDescending(SubSeq(list, 1, Len(list) - 1)),
                          list[Len(list)])

\* HypothesisRanker.rank
rank(hypotheses) ==
    IF hypotheses = <<>> THEN <<>>
    ELSE LET scored == [i \in 1..Len(hypotheses) |->
                           [f \in DOMAIN hypotheses[i] \cup {"final_score"} |->
                               IF f = "final_score" THEN final_score(hypotheses[i])
                               ELSE hypotheses[i][f]]]
             ranked == SortDescending(scored)
         IN [i \in 1..Len(ranked) |-> [ranked[i] EXCEPT !.rank = i]]

CallRank(hypotheses) ==
    /\ call.op = "none"
    /\ call' = [op |-> "rank", hypotheses |-> hypotheses, ret |-> rank(hypotheses)]

(***************************** RulesEngine *********************************)
\* Numbers: confidence_base and condition strengths in hundredths,
\* confidence and signal_strength in thousandths.
MaxEvidenceItems == 3

\* the static rule catalog
DIAGNOSIS_RULES == <<
    [id |-> "crashloop_recent_deploy",
     conditions |-> <<[type |-> "waiting_reason", values |-> {"CrashLoopBackOff"}],
                     [type |-> "recent_deploy", values |-> {}]>>,
     category |-> "bad_deployment", confidence_base |-> 90,
     actions |-> <<"rollback_deployment",
                     "Check application logs for startup errors",
                     "Review recent code changes in the deployment">>],
    [id |-> "crashloop_no_change",
     conditions |-> <<[type |-> "waiting_reason", values |-> {"CrashLoopBackOff"}],
                     [type |-> "no_recent_deploy", values |-> {}]>>,
     category |-> "external_dependency", confidence_base |-> 75,
     actions |-> <<"restart_pod",
                     "Check external service connectivity",
                     "Verify database connections",
                     "Review application logs for dependency errors">>],
    [id |-> "oom_killed",
     conditions |-> <<[type |-> "terminated_reason", values |-> {"OOMKilled"}]>>,
     category |-> "resource_exhaustion", confidence_base |-> 95,
     actions |-> <<"Increase memory limits if appropriate",
                     "Check for memory leaks in application",
                     "Review memory usage patterns",
                     "restart_deployment">>],
    [id |-> "oom_high_memory",
     conditions |-> <<[type |-> "memory_usage_high", values |-> {}]>>,
     category |-> "resource_exhaustion", confidence_base |-> 80,
     actions |-> <<"Increase memory limits",
                     "Investigate memory usage patterns",
                     "Check for memory leaks">>],
    [id |-> "image_pull_failure",
     conditions |-> <<[type |-> "waiting_reason", values |-> {"ImagePullBackOff", "ErrImagePull", "ImageInspectError"}]>>,
     category |-> "configuration_error", confidence_base |-> 95,
     actions |-> <<"Verify image tag exists in registry",
                     "Check imagePullSecrets configuration",
                     "Verify registry authentication",
                     "Check network connectivity to registry">>],
    [id |-> "node_failure_isolated",
     conditions |-> <<[type |-> "multiple_pods_same_node", values |-> {}],
                     [type |-> "node_unhealthy", values |-> {}]>>,
     category |-> "infrastructure_issue", confidence_base |-> 85,
     actions |-> <<"cordon_node",
                     "Migrate pods to healthy nodes",
                     "Investigate node health",
                     "Check node resource usage">>],
    [id |-> "hpa_maxed",
     conditions |-> <<[type |-> "hpa_at_max", values |-> {}],
                     [type |-> "latency_high", values |-> {}]>>,
     category |-> "scaling_issue", confidence_base |-> 80,
     actions |-> <<"scale_replicas",
                     "Increase HPA max replicas",
                     "Review resource requests/limits",
                     "Consider adding nodes to cluster">>],
    [id |-> "readiness_probe_failing",
     conditions |-> <<[type |-> "pod_not_ready", values |-> {}],
                     [type |-> "readiness_probe_failing", values |-> {}]>>,
     category |-> "dependency_failure", confidence_base |-> 75,
     actions |-> <<"Check application health endpoints",
                     "Verify database connections",
                     "Check external service dependencies",
                     "Review probe configuration">>],
    [id |-> "config_error",
     conditions |-> <<[type |-> "terminated_reason", values |-> {"ContainerCannotRun", "CreateContainerConfigError"}]>>,
     category |-> "configuration_error", confidence_base |-> 90,
     actions |-> <<"Check ConfigMap and Secret references",
                     "Verify volume mounts",
                     "Review container security context",
                     "Check environment variable configurations">>],
    [id |-> "network_error",
     conditions |-> <<[type |-> "log_pattern", values |-> {"connection refused", "connection reset", "timeout"}],
                     [type |-> "network_errors_high", values |-> {}]>>,
     category |-> "network_issue", confidence_base |-> 70,
     actions |-> <<"Check DNS resolution",
                     "Verify network policies",
                     "Check service mesh configuration",
                     "Test connectivity to external services">>]>>

\* evidence items, with the fields of data the engine reads
Evidence(type) ==
    [evidence_type |-> type, waiting_reason |-> None, terminated_reason |-> None,
     is_recent_change |-> FALSE, query_name |-> "", is_anomalous |-> FALSE,
     current_value |-> 0, patterns_found |-> {}, ready_status |-> None]

PodEvidence(waiting_reason, terminated_reason) ==
    [Evidence("kubernetes_pod") EXCEPT !.waiting_reason = waiting_reason,
                                       !.terminated_reason = terminated_reason]

DeployEvidence(is_recent_change) ==
    [Evidence("deploy_change") EXCEPT !.is_recent_change = is_recent_change]

MetricEvidence(query_name, is_anomalous, current_value) ==
    [Evidence("metric_signal") EXCEPT !.query_name = query_name,
                                      !.is_anomalous = is_anomalous,
                                      !.current_value = current_value]

LogEvidence(patterns_found) ==
    [Evidence("log_signal") EXCEPT !.patterns_found = patterns_found]

NodeEvidence(ready_status) ==
    [Evidence("kubernetes_node") EXCEPT !.ready_status = ready_status]

EvidenceItems ==
    {PodEvidence("CrashLoopBackOff", None), PodEvidence(None, "OOMKilled"),
     PodEvidence("CrashLoopBackOff", "OOMKilled"),
     PodEvidence("ImagePullBackOff", None), PodEvidence(None, None),
     PodEvidence(None, "ContainerCannotRun"),
     DeployEvidence(TRUE), DeployEvidence(FALSE),
     MetricEvidence("memory_usage_percent", TRUE, 95),
     MetricEvidence("hpa_at_max", FALSE, 1),
     MetricEvidence("latency_p99", FALSE, 3),
     LogEvidence({"timeout"}), NodeEvidence("False"),
     Evidence("kubernetes_event")}

EvidenceLists == UNION {[1..n -> EvidenceItems] : n \in 0..MaxEvidenceItems}

\* word in query_name
Contains(query_name, word) ==
    \/ query_name = "memory_usage_percent" /\ word = "memory"
    \/ query_name = "hpa_at_max" /\ word \in {"hpa", "max"}
    \/ query_name = "latency_p99" /\ word = "latency"

\* RulesEngine._extract_signals
_extract_signals(evidence) ==
    LET of(type) == {evidence[i] : i \in {j \in 1..Len(evidence) :
                                            evidence[j].evidence_type = type}}
    IN [waiting_reasons |-> {e.waiting_reason : e \in of("kubernetes_pod")} \ {None},
        terminated_reasons |->
            {e.terminated_reason : e \in of("kubernetes_pod")} \ {None},
        log_patterns |-> UNION {e.patterns_found : e \in of("log_signal")},
        has_recent_deploy |-> \E e \in of("deploy_change") : e.is_recent_change,
        memory_usage_high |->
            \E e \in of("metric_signal") :
                Contains(e.query_name, "memory") /\ e.is_anomalous /\ e.current_value > 90,
        hpa_at_max |->
            \E e \in of("metric_signal") :
                /\ Contains(e.query_name, "hpa") /\ Contains(e.query_name, "max")
                /\ e.current_value = 1,
        latency_high |->
            \E e \in of("metric_signal") :
                Contains(e.query_name, "latency") /\ e.current_value > 1,
        node_issues |-> \E e \in of("kubernetes_node") : e.ready_status # "True"]

\* the checks table of _check_condition: whether the condition matches
ConditionMatches(condition, signals) ==
    CASE condition.type = "waiting_reason" ->
             signals.waiting_reasons \cap condition.values # {}
      [] condition.type = "terminated_reason" ->
             signals.terminated_reasons \cap condition.values # {}
      [] condition.type = "recent_deploy" -> signals.has_recent_deploy
      [] condition.type = "no_recent_deploy" -> ~signals.has_recent_deploy
      [] condition.type = "memory_usage_high" -> signals.memory_usage_high
      [] condition.type = "hpa_at_max" -> signals.hpa_at_max
      [] condition.type = "latency_high" -> signals.latency_high
      [] condition.type = "log_pattern" ->
             signals.log_patterns \cap condition.values # {}
      [] condition.type = "node_unhealthy" -> signals.node_issues
      [] OTHER -> FALSE

\* the checks table of _check_condition: the strength of a type
ConditionStrength(type) ==
    CASE type \in {"waiting_reason", "terminated_reason"} -> 90
      [] type \in {"recent_deploy", "node_unhealthy"} -> 80
      [] type = "no_recent_deploy" -> 60
      [] type = "memory_usage_high" -> 85
      [] type = "hpa_at_max" -> 75
      [] type = "latency_high" -> 70
      [] type = "log_pattern" -> 65
      [] OTHER -> 0

\* RulesEngine._check_condition
_check_condition(condition, signals) ==
    IF ConditionMatches(condition, signals)
    THEN [matched |-> TRUE, strength |-> ConditionStrength(condition.type)]
    ELSE [matched |-> FALSE, strength |-> 0]

RECURSIVE Sum(_)
Sum(list) == IF list = <<>> THEN 0 ELSE list[1] + Sum(Tail(list))

\* _match_rule deciding on one matched condition
_match_rule_any(rule, signals) ==
    LET results == [i \in 1..Len(rule.conditions) |->
                       _check_condition(rule.conditions[i], signals)]
        matched_conditions ==
            Cardinality({i \in 1..Len(results) : results[i].matched})
        total_conditions == Len(rule.conditions)
    IN [matched |-> matched_conditions > 0,
        match_count |-> matched_conditions,
        strength_sum |-> Sum([i \in 1..Len(results) |-> results[i].strength]),
        total_conditions |-> total_conditions]

\* RulesEngine._match_rule; evidence_strength is strength_sum / max(total, 1)
_match_rule(rule, signals) ==
    LET results == [i \in 1..Len(rule.conditions) |->
                       _check_condition(rule.conditions[i], signals)]
        matched_conditions ==
            Cardinality({i \in 1..Len(results) : results[i].matched})
        total_conditions == Len(rule.conditions)
    IN [matched |-> matched_conditions = total_conditions /\ total_conditions > 0,
        match_count |-> matched_conditions,
        strength_sum |-> Sum([i \in 1..Len(results) |-> results[i].strength]),
        total_conditions |-> total_conditions]

\* the rule's base confidence taken as the confidence
_calculate_confidence_base_only(confidence_base, match_result) ==
    10 * confidence_base

\* RulesEngine._calculate_confidence, from base (hundredths), match_count and
\* evidence_strength = strength_sum / total_conditions
_calculate_confidence(confidence_base, match_result) ==
    LET total == IF match_result.total_conditions > 1
                 THEN match_result.total_conditions ELSE 1
        confidence == 6 * confidence_base * total + 4 * match_result.strength_sum
    IN IF match_result.match_count > 2
       THEN Min(Round(11 * confidence, 10 * total), 990)
       ELSE Round(confidence, total)

\* RulesEngine._create_hypothesis
_create_hypothesis(rule, match_result) ==
    LET total == IF match_result.total_conditions > 1
                 THEN match_result.total_conditions ELSE 1
    IN [category |-> rule.category,
        confidence |-> _calculate_confidence(rule.confidence_base, match_result),
        rank |-> 0,
        recommended_actions |-> rule.actions,
        rule_id |-> rule.id,
        support_count |-> match_result.match_count,
        signal_strength |-> Round(10 * match_result.strength_sum, total)]

\* RulesEngine._create_unknown_hypothesis
_create_unknown_hypothesis ==
    [category |-> "unknown", confidence |-> 300, rank |-> 1,
     recommended_actions |-> <<"Review application logs", "Check recent deployments",
                               "Verify external dependencies",
                               "Escalate to engineering team">>,
     rule_id |-> "unknown", support_count |-> 0, signal_strength |-> 0]

\* hypotheses.sort(key=confidence, reverse=True): stable
RECURSIVE InsertByConfidence(_, _)
InsertByConfidence(sorted, x) ==
    IF sorted = <<>> THEN <<x>>
    ELSE IF sorted[1].confidence >= x.confidence
    THEN <<sorted[1]>> \o InsertByConfidence(Tail(sorted), x)
    ELSE <<x>> \o sorted

RECURSIVE SortByConfidence(_)
SortByConfidence(list) ==
    IF list = <<>> THEN <<>>
    ELSE InsertByConfidence(SortByConfidence(SubSeq(list, 1, Len(list) - 1)),
                            list[Len(list)])

\* the loop over self.rules of generate_hypotheses, from rule i on
RECURSIVE MatchedHypotheses(_, _)
MatchedHypotheses(signals, i) ==
    IF i > Len(DIAGNOSIS_RULES) THEN <<>>
    ELSE LET match_result == _match_rule(DIAGNOSIS_RULES[i], signals)
         IN (IF match_result.matched
             THEN <<_create_hypothesis(DIAGNOSIS_RULES[i], match_result)>>
             ELSE <<>>) \o MatchedHypotheses(signals, i + 1)

\* RulesEngine.generate_hypotheses
generate_hypotheses(evidence) ==
    LET signals == _extract_signals(evidence)
        hypotheses == SortByConfidence(MatchedHypotheses(signals, 1))
    IN IF hypotheses = <<>> THEN <<_create_unknown_hypothesis>> ELSE hypotheses

CallGenerateHypotheses(evidence) ==
    /\ call.op = "none"
    /\ call' = [op |-> "generate_hypotheses", evidence |-> evidence,
                ret |-> generate_hypotheses(evidence)]

\* one pass of the loop over self.rules: _match_rule on the signals extracted
\* from the evidence (one item of evidence for each condition of the rule)
CallMatchRule(rule, evidence) ==
    /\ call.op = "none"
    /\ call' = [op |-> "_match_rule", rule |-> rule,
                signals |-> _extract_signals(evidence),
                ret |-> _match_rule(rule, _extract_signals(evidence))]

(*************************** AlertNormalizer *******************************)
\* alerts the normalizer is called with: labels.pod set or not
PodLabels == {None, "api-7d-xyz", "api-7d-abc"}

LabelledAlerts == [status : {"firing"}, alertname : AlertNames,
                   namespace : Namespaces, service : Services, pod : PodLabels]

\* normalize_alertmanager on two alerts of one payload
CallNormalizeAlertmanager(alert, other) ==
    /\ call.op = "none"
    /\ call' = [op |-> "normalize_alertmanager", alerts |-> <<alert, other>>,
                ret |-> <<normalize_alertmanager(alert),
                          normalize_alertmanager(other)>>]

(************************* collect_all_evidence ****************************)
\* the collectors list of the activity, in its order
CollectorNames == <<"kubernetes", "logs", "metrics", "deploy_diff">>

\* the constructors that raise: _init_client re-raises when no Kubernetes
\* configuration loads; the other two constructors only read settings
ConstructorRaises == {"kubernetes", "deploy_diff"}

\* what happens to each collector: its constructor raises, its collect raises,
\* or it collects
CollectorOutcomes ==
    {o \in [1..Len(CollectorNames) -> {"ok", "init_raises", "collect_raises"}] :
        \A i \in 1..Len(CollectorNames) :
            o[i] = "init_raises" => CollectorNames[i] \in ConstructorRaises}

\* BaseCollector.run: an exception of collect becomes a result with errors
BaseCollector_run(name, outcome) ==
    IF outcome = "collect_raises"
    THEN [collector_name |-> name, success |-> FALSE, errors |-> <<name>>,
          evidence |-> 0]
    ELSE [collector_name |-> name, success |-> TRUE, errors |-> <<>>,
          evidence |-> 1]

\* the for loop of the activity over collectors i..4
RECURSIVE CollectFrom(_, _, _)
CollectFrom(outcomes, i, results) ==
    IF i > Len(CollectorNames) THEN results
    ELSE LET r == BaseCollector_run(CollectorNames[i], outcomes[i])
         IN CollectFrom(outcomes, i + 1,
                        [results EXCEPT !.errors = @ \o r.errors,
                                        !.total_evidence = @ + r.evidence])

\* the activity collect_all_evidence: the collectors are constructed in the
\* list literal, before the loop's try; the evidence is then stored
collect_all_evidence(outcomes, session_ok) ==
    IF \E i \in 1..Len(CollectorNames) : outcomes[i] = "init_raises"
    THEN [raised |-> TRUE, errors |-> <<>>, total_evidence |-> 0]
    ELSE IF ~session_ok
    THEN [raised |-> TRUE, errors |-> <<>>, total_evidence |-> 0]
    ELSE CollectFrom(outcomes, 1,
                     [raised |-> FALSE, errors |-> <<>>, total_evidence |-> 0])

CallCollectAllEvidence(outcomes, session_ok) ==
    /\ call.op = "none"
    /\ call' = [op |-> "collect_all_evidence", outcomes |-> outcomes,
                session_ok |-> session_ok,
                ret |-> collect_all_evidence(outcomes, session_ok)]

(****************************** GraphService *******************************)
\* Identifiers are tuples: <<x>> is str(incident.id), <<"incident", x>> is
\* f"incident:{incident.id}", <<"pod", p>> is f"pod:{namespace}:{pod_name}".
MaxDepth == 2

IncidentIds == {"X", "Y"}
PodNames == {"api-1", "api-2"}

\* the graph store: nodes [label, properties], relationships [source, type, target]
VARIABLES graph

graphVars == <<graph>>

GraphInit == graph = [nodes |-> {}, relationships |-> {}]

\* KubernetesCollector._create_incident_entity
_create_incident_entity(incident_id) ==
    [id |-> <<"incident", incident_id>>, type |-> "Incident",
     properties |-> [id |-> <<incident_id>>, namespace |-> "default"]]

\* the Pod entity of _collect_pods
PodEntity(pod_name) ==
    [id |-> <<"pod", pod_name>>, type |-> "Pod",
     properties |-> [name |-> pod_name, namespace |-> "default"]]

\* the Node entity of _collect_nodes, emitted for a node that is not ready
NodeEntity(node_name) ==
    [id |-> <<"node", node_name>>, type |-> "Node",
     properties |-> [name |-> node_name, ready |-> FALSE]]

\* the relations of a pod: SCHEDULED_ON its node, AFFECTS from the incident
PodRelations(incident_id, pod_name) ==
    {[source_id |-> <<"pod", pod_name>>, target_id |-> <<"node", "node-1">>,
      relation_type |-> "SCHEDULED_ON"],
     [source_id |-> <<"incident", incident_id>>, target_id |-> <<"pod", pod_name>>,
      relation_type |-> "AFFECTS"]}

\* KubernetesCollector.collect: what it hands to the graph build for an
\* incident whose namespace lists pods, on a node that is unhealthy or not
CollectorGraph(incident_id, pods, node_unhealthy) ==
    [entities |-> {PodEntity(p) : p \in pods}
                  \cup (IF node_unhealthy THEN {NodeEntity("node-1")} ELSE {})
                  \cup {_create_incident_entity(incident_id)},
     relations |-> UNION {PodRelations(incident_id, p) : p \in pods}]

\* MERGE (n:<type> {id: $id}) SET n += $properties, with props["id"] = entity.id
MergeNode(nodes, entity) ==
    LET props == [f \in DOMAIN entity.properties \cup {"id"} |->
                     IF f = "id" THEN entity.id ELSE entity.properties[f]]
        same == {n \in nodes : n.label = entity.type /\ n.properties.id = entity.id}
    IN (nodes \ same) \cup {[label |-> entity.type, properties |-> props]}

\* GraphService.create_entities_batch
RECURSIVE create_entities_batch(_, _)
create_entities_batch(nodes, entities) ==
    IF entities = {} THEN nodes
    ELSE LET entity == CHOOSE e \in entities : TRUE
         IN create_entities_batch(MergeNode(nodes, entity), entities \ {entity})

\* GraphService.create_relations_batch: MATCH both ends by id, then MERGE;
\* a relation with a missing end creates nothing
create_relations_batch(store, relations) ==
    LET ids == {n.properties.id : n \in store.nodes}
    IN store.relationships
       \cup {[source |-> r.source_id, type |-> r.relation_type, target |-> r.target_id] :
                r \in {q \in relations : q.source_id \in ids /\ q.target_id \in ids}}

\* the activity build_evidence_graph
build_evidence_graph(store, evidence_data) ==
    LET nodes == create_entities_batch(store.nodes, evidence_data.entities)
    IN [nodes |-> nodes,
        relationships |-> create_relations_batch(
                              [store EXCEPT !.nodes = nodes], evidence_data.relations)]

\* apoc.path.subgraphAll(i, {maxLevel: depth}): ids within depth hops of the
\* ids in reached, following relationships in either direction
RECURSIVE SubgraphAll(_, _, _)
SubgraphAll(store, reached, depth) ==
    IF depth = 0 THEN reached
    ELSE SubgraphAll(store,
                     reached
                     \cup {r.target : r \in {q \in store.relationships : q.source \in reached}}
                     \cup {r.source : r \in {q \in store.relationships : q.target \in reached}},
                     depth - 1)

\* GraphService.get_incident_graph
get_incident_graph(store, incident_id, depth) ==
    LET start == {n \in store.nodes :
                     n.label = "Incident" /\ n.properties.id = incident_id}
    IN IF start = {} THEN [nodes |-> {}, relationships |-> {}]
       ELSE LET ids == SubgraphAll(store, {n.properties.id : n \in start}, depth)
            IN [nodes |-> {n.properties.id : n \in
                               {m \in store.nodes : m.properties.id \in ids}},
                relationships |-> {r \in store.relationships :
                                      r.source \in ids /\ r.target \in ids}]

\* the workflow's graph step for one incident
BuildEvidenceGraph(incident_id, pods, node_unhealthy) ==
    /\ graph' = build_evidence_graph(graph,
                                     CollectorGraph(incident_id, pods, node_unhealthy))
    /\ UNCHANGED call

\* GET /api/v1/incidents/{incident_id}/graph?depth=N
GetIncidentGraph(incident_id, depth) ==
    /\ call' = [op |-> "get_incident_graph", incident_id |-> incident_id,
                depth |-> depth, store |-> graph,
                ret |-> get_incident_graph(graph, incident_id, depth)]
    /\ UNCHANGED graph

\* the identifiers a client asks with: an incident's id, or its node's id
QueryIds == {<<x>> : x \in IncidentIds} \cup {<<"incident", x>> : x \in IncidentIds}

(************************ RemediationOrchestrator ***************************)
\* Scores are in hundredths here.
MaxReplicas == 3

\* env_multiplier.get(env, 3.0), in tenths
env_multiplier(env) ==
    CASE env = "dev" -> 10
      [] env = "staging" -> 20
      [] env = "uat" -> 25
      [] env = "prod" -> 50
      [] OTHER -> 30

critical_namespaces == {"default", "platform", "core-services"}

\* what the cluster answers to calculate_blast_radius: whether a client
\* configuration loads, and what read_namespaced_deployment does
DeploymentReads ==
    {[outcome |-> "ApiException", replicas |-> 0],
     [outcome |-> "Exception", replicas |-> 0]}
    \cup {[outcome |-> "ok", replicas |-> n] : n \in 0..MaxReplicas}

BlastRadiusInputs ==
    [namespace : {"default", "payments"}, service : {None, "api"},
     app_env : {"development", "dev", "prod"}, config_ok : BOOLEAN,
     read : DeploymentReads]

\* the error result of calculate_blast_radius
BlastRadiusError == [score |-> 10000, is_acceptable |-> FALSE, keys |-> {"error"}]

\* RemediationOrchestrator.calculate_blast_radius
calculate_blast_radius(cluster) ==
    IF ~cluster.config_ok THEN BlastRadiusError
    ELSE IF cluster.service # None /\ cluster.read.outcome = "Exception" THEN BlastRadiusError
    ELSE LET found == cluster.service # None /\ cluster.read.outcome = "ok"
             affected_pods == IF ~found THEN 0
                              ELSE IF cluster.read.replicas = 0 THEN 1
                              ELSE cluster.read.replicas
             affected_deployments == IF found THEN 1 ELSE 0
             base_score == (affected_pods * 5 + affected_deployments * 10)
                           * (IF cluster.namespace \in critical_namespaces THEN 15 ELSE 10)
             capped_score == Min(base_score * env_multiplier(cluster.app_env), 10000)
         IN [score |-> capped_score,
             is_acceptable |-> capped_score < 100 * remediation_max_blast_radius,
             keys |-> {"affected_pods", "affected_deployments"}]

CallCalculateBlastRadius(cluster) ==
    /\ call.op = "none"
    /\ call' = [op |-> "calculate_blast_radius", cluster |-> cluster,
                ret |-> calculate_blast_radius(cluster)]

(********************* run() with its activities ***************************)
\* The run composed with the bodies of its activities: an attempt of an
\* activity fails when an external call of it fails, or when its own code
\* raises.
VARIABLES external_failed

composedVars == <<external_failed>>

ComposedInit == external_failed = FALSE

\* activities whose body awaits the result of a synchronous method:
\* RulesEngine.generate_hypotheses, RemediationOrchestrator.calculate_blast_radius
\* and RemediationExecutor.execute are plain functions, and awaiting the list
\* or dict they return raises TypeError
AwaitsSynchronousCall == {"generate_hypotheses", "calculate_blast_radius",
                          "execute_remediation"}

\* an activity whose external calls succeeded returns, unless its code raises
ReturnsWhenCallsSucceed == pc \in Activities \ AwaitsSynchronousCall

\* the await of the synchronous result raises TypeError in the activity
AwaitRaisesTypeError ==
    /\ pc \in AwaitsSynchronousCall
    /\ ActivityFailed("TypeError", pc = "execute_remediation")
    /\ UNCHANGED external_failed

\* an external call of the awaited activity fails and the attempt is retried
ExternalCallFailsRetried ==
    /\ ActivityRetried("TimeoutError", FALSE)
    /\ external_failed' = TRUE

\* an external call of the awaited activity fails on the last attempt
ExternalCallFailsLast ==
    /\ ActivityFailed("TimeoutError", FALSE)
    /\ external_failed' = TRUE

(********************* concurrent webhook requests *************************)
\* Requests in flight at once; a handler gives way to the others at each of
\* its awaits (check_duplicate, create_incident).
MaxHandlers == 2

Handlers == 1..MaxHandlers

VARIABLES handlers

handlerVars == <<handlers>>

HandlersInit == handlers = [h \in Handlers |-> [pc |-> "idle"]]

InFlight(h) == handlers[h].pc \in {"check_duplicate", "create_incident"}

\* the request arrives with one alert; an alert that is not firing is skipped
\* and the response sent
WebhookReceived(h, alert) ==
    /\ handlers[h].pc = "idle"
    /\ handlers' = [handlers EXCEPT ![h] =
           IF alert.status # "firing"
           THEN [pc |-> "done", incidents_created |-> 0]
           ELSE [pc |-> "check_duplicate",
                 incident_data |-> normalize_alertmanager(alert),
                 overlaps |-> {g \in Handlers \ {h} : InFlight(g)}]]
    /\ UNCHANGED gatewayVars

\* await AlertDeduplicator.check_duplicate(incident_data.fingerprint) returns
CheckDuplicateReturns(h) ==
    /\ handlers[h].pc = "check_duplicate"
    /\ LET dup == check_duplicate(handlers[h].incident_data.fingerprint)
       IN handlers' = [handlers EXCEPT ![h] =
              IF dup.is_duplicate
              THEN [pc |-> "done", incidents_created |-> 0]
              ELSE [@ EXCEPT !.pc = "create_incident"]]
    /\ UNCHANGED gatewayVars

\* await create_incident(incident_data) returns; the workflow trigger is added
\* as a background task and the response sent
CreateIncidentReturns(h) ==
    /\ handlers[h].pc = "create_incident"
    /\ LET incident == NewIncident(incidents, handlers[h].incident_data)
       IN /\ incidents' = create_incident(incidents, handlers[h].incident_data)
          /\ workflows' = workflows \cup {incident.id}
          /\ handlers' = [handlers EXCEPT ![h] =
                 [pc |-> "done", incidents_created |-> 1,
                  incident |-> incident, overlaps |-> handlers[h].overlaps]]
    /\ UNCHANGED <<now, redisUp, fpStore, rateStore, requests, response, apiCalls,
                   last, storeFailed>>

(***************************************************************************)
(* Specifications.                                                         *)
(***************************************************************************)
GatewayInit ==
    /\ now = 0
    /\ redisUp = TRUE
    /\ fpStore = [fp \in Fingerprints |-> NoKey]
    /\ rateStore = [c \in Clients |-> [count |-> 0, expires |-> 0]]
    /\ incidents = {}
    /\ workflows = {}
    /\ requests = <<>>
    /\ response = [status |-> "none"]
    /\ apiCalls = 0
    /\ last = [op |-> "none"]
    /\ storeFailed = FALSE

vars == <<gatewayVars, workflowVars, functionVars, graphVars, composedVars, handlerVars>>

Init == GatewayInit /\ WorkflowInit /\ FunctionsInit /\ GraphInit /\ ComposedInit /\ HandlersInit

\* The deployed gateway: webhook requests, the clock and the Redis server.
GatewayNext ==
    \/ /\ \E c \in Clients, p \in Payloads : alertmanager_webhook(c, p)
       /\ UNCHANGED <<workflowVars, functionVars, graphVars, composedVars, handlerVars>>
    \/ /\ Tick
       /\ UNCHANGED <<workflowVars, functionVars, graphVars, composedVars, handlerVars>>
    \/ /\ RedisFails
       /\ UNCHANGED <<workflowVars, functionVars, graphVars, composedVars, handlerVars>>
    \/ /\ RedisRecovers
       /\ UNCHANGED <<workflowVars, functionVars, graphVars, composedVars, handlerVars>>

Spec == Init /\ [][GatewayNext]_vars

\* The gateway (single-alert payloads) together with direct callers of the
\* store API.
StoreNext ==
    \/ /\ /\ Len(requests) + apiCalls < MaxApiCalls
          /\ \E c \in Clients, a \in Alerts : alertmanager_webhook(c, <<a>>)
       /\ UNCHANGED <<workflowVars, functionVars, graphVars, composedVars, handlerVars>>
    \/ /\ Tick
       /\ UNCHANGED <<workflowVars, functionVars, graphVars, composedVars, handlerVars>>
    \/ /\ RedisFails
       /\ UNCHANGED <<workflowVars, functionVars, graphVars, composedVars, handlerVars>>
    \/ /\ RedisRecovers
       /\ UNCHANGED <<workflowVars, functionVars, graphVars, composedVars, handlerVars>>
    \/ /\ \E fp \in Fingerprints : CallCheckDuplicate(fp)
       /\ UNCHANGED <<workflowVars, functionVars, graphVars, composedVars, handlerVars>>
    \/ /\ \E fp \in Fingerprints : CallRegisterFingerprint(fp, <<fp, 1>>)
       /\ UNCHANGED <<workflowVars, functionVars, graphVars, composedVars, handlerVars>>
    \/ /\ \E c \in Clients : CallCheckRateLimit(c)
       /\ UNCHANGED <<workflowVars, functionVars, graphVars, composedVars, handlerVars>>

SpecStore == Init /\ [][StoreNext]_vars

\* One run of the incident workflow.
WorkflowNext ==
    \/ /\ run_start
       /\ UNCHANGED <<gatewayVars, functionVars, graphVars, composedVars, handlerVars>>
    \/ /\ \E n \in 0..MaxEvidence : collect_all_evidence_returns(n)
       /\ UNCHANGED <<gatewayVars, functionVars, graphVars, composedVars, handlerVars>>
    \/ /\ build_evidence_graph_returns
       /\ UNCHANGED <<gatewayVars, functionVars, graphVars, composedVars, handlerVars>>
    \/ /\ \E h \in HypothesisLists : generate_hypotheses_returns(h)
       /\ UNCHANGED <<gatewayVars, functionVars, graphVars, composedVars, handlerVars>>
    \/ /\ \E r \in RankedLists(self.hypotheses) : rank_hypotheses_returns(r)
       /\ UNCHANGED <<gatewayVars, functionVars, graphVars, composedVars, handlerVars>>
    \/ /\ generate_runbook_returns
       /\ UNCHANGED <<gatewayVars, functionVars, graphVars, composedVars, handlerVars>>
    \/ /\ \E score \in BlastRadiusScores :
              calculate_blast_radius_returns(BlastRadiusResult(score))
       /\ UNCHANGED <<gatewayVars, functionVars, graphVars, composedVars, handlerVars>>
    \/ /\ \E r \in OPAResponses : evaluate_remediation_policy_returns(r)
       /\ UNCHANGED <<gatewayVars, functionVars, graphVars, composedVars, handlerVars>>
    \/ /\ \E configured \in BOOLEAN, post_ok \in BOOLEAN, answer \in ApproverAnswers :
              request_approval_returns(configured, post_ok, answer)
       /\ UNCHANGED <<gatewayVars, functionVars, graphVars, composedVars, handlerVars>>
    \/ /\ \E success \in BOOLEAN : execute_remediation_returns(success)
       /\ UNCHANGED <<gatewayVars, functionVars, graphVars, composedVars, handlerVars>>
    \/ /\ sleep_returns
       /\ UNCHANGED <<gatewayVars, functionVars, graphVars, composedVars, handlerVars>>
    \/ /\ \E success \in BOOLEAN, improved \in BOOLEAN :
              verify_remediation_returns(success, improved)
       /\ UNCHANGED <<gatewayVars, functionVars, graphVars, composedVars, handlerVars>>
    \/ /\ create_ticket_returns
       /\ UNCHANGED <<gatewayVars, functionVars, graphVars, composedVars, handlerVars>>
    \/ /\ close_incident_returns
       /\ UNCHANGED <<gatewayVars, functionVars, graphVars, composedVars, handlerVars>>
    \/ /\ \E e \in ErrorTypes, m \in BOOLEAN : ActivityRetried(e, m)
       /\ UNCHANGED <<gatewayVars, functionVars, graphVars, composedVars, handlerVars>>
    \/ /\ \E e \in ErrorTypes, m \in BOOLEAN : ActivityFailed(e, m)
       /\ UNCHANGED <<gatewayVars, functionVars, graphVars, composedVars, handlerVars>>

SpecWorkflow == Init /\ [][WorkflowNext]_vars

\* Calls of the library functions with every input of the bounded sets.
FunctionsNext ==
    \/ /\ call.op = "none"
       /\ \E e \in RateProbes, r \in RateProbes, l \in PodListings : CallVerify(e, r, l)
       /\ UNCHANGED <<gatewayVars, workflowVars, graphVars, composedVars, handlerVars>>
    \/ /\ call.op = "none"
       /\ \E h \in RankerInputs : CallRank(h)
       /\ UNCHANGED <<gatewayVars, workflowVars, graphVars, composedVars, handlerVars>>
    \/ /\ call.op = "none"
       /\ \E e \in EvidenceLists : CallGenerateHypotheses(e)
       /\ UNCHANGED <<gatewayVars, workflowVars, graphVars, composedVars, handlerVars>>
    \/ /\ call.op = "none"
       /\ \E i \in 1..Len(DIAGNOSIS_RULES) :
              \E e \in [1..Len(DIAGNOSIS_RULES[i].conditions) -> EvidenceItems] :
                  CallMatchRule(DIAGNOSIS_RULES[i], e)
       /\ UNCHANGED <<gatewayVars, workflowVars, graphVars, composedVars, handlerVars>>
    \/ /\ call.op = "none"
       /\ \E a \in LabelledAlerts, b \in LabelledAlerts : CallNormalizeAlertmanager(a, b)
       /\ UNCHANGED <<gatewayVars, workflowVars, graphVars, composedVars, handlerVars>>
    \/ /\ call.op = "none"
       /\ \E o \in CollectorOutcomes, ok \in BOOLEAN : CallCollectAllEvidence(o, ok)
       /\ UNCHANGED <<gatewayVars, workflowVars, graphVars, composedVars, handlerVars>>
    \/ /\ call.op = "none"
       /\ \E c \in BlastRadiusInputs : CallCalculateBlastRadius(c)
       /\ UNCHANGED <<gatewayVars, workflowVars, graphVars, composedVars, handlerVars>>

SpecFunctions == Init /\ [][FunctionsNext]_vars

\* One run with the code of its activities, scheduled fairly.
ComposedNext ==
    \/ /\ run_start
       /\ UNCHANGED <<gatewayVars, functionVars, graphVars, composedVars, handlerVars>>
    \/ /\ ReturnsWhenCallsSucceed
       /\ \E n \in 0..MaxEvidence : collect_all_evidence_returns(n)
       /\ UNCHANGED <<gatewayVars, functionVars, graphVars, composedVars, handlerVars>>
    \/ /\ ReturnsWhenCallsSucceed
       /\ build_evidence_graph_returns
       /\ UNCHANGED <<gatewayVars, functionVars, graphVars, composedVars, handlerVars>>
    \/ /\ AwaitRaisesTypeError
       /\ UNCHANGED <<gatewayVars, functionVars, graphVars, handlerVars>>
    \/ /\ ExternalCallFailsRetried
       /\ UNCHANGED <<gatewayVars, functionVars, graphVars, handlerVars>>
    \/ /\ ExternalCallFailsLast
       /\ UNCHANGED <<gatewayVars, functionVars, graphVars, handlerVars>>

SpecComposed == Init /\ [][ComposedNext]_vars /\ WF_vars(ComposedNext)

\* Webhook requests handled concurrently by the gateway.
ConcurrentNext ==
    \/ /\ \E h \in Handlers, a \in Alerts : WebhookReceived(h, a)
       /\ UNCHANGED <<workflowVars, functionVars, graphVars, composedVars>>
    \/ /\ \E h \in Handlers : CheckDuplicateReturns(h)
       /\ UNCHANGED <<workflowVars, functionVars, graphVars, composedVars>>
    \/ /\ \E h \in Handlers : CreateIncidentReturns(h)
       /\ UNCHANGED <<workflowVars, functionVars, graphVars, composedVars>>
    \/ /\ Tick
       /\ UNCHANGED <<workflowVars, functionVars, graphVars, composedVars, handlerVars>>

SpecConcurrent == Init /\ [][ConcurrentNext]_vars

\* The graph store: graph builds of incidents and subgraph queries.
GraphNext ==
    \/ /\ \E x \in IncidentIds, pods \in SUBSET PodNames, u \in BOOLEAN :
              BuildEvidenceGraph(x, pods, u)
       /\ UNCHANGED <<gatewayVars, workflowVars, composedVars, handlerVars>>
    \/ /\ \E id \in QueryIds, depth \in 1..MaxDepth : GetIncidentGraph(id, depth)
       /\ UNCHANGED <<gatewayVars, workflowVars, composedVars, handlerVars>>

SpecGraph == Init /\ [][GraphNext]_vars

(***************************************************************************)
(* Claims about the gateway.                                               *)
(***************************************************************************)
Abs(n) == IF n < 0 THEN 0 - n ELSE n

\* C1: with a working fingerprint store, two incidents of the same fingerprint
\* are never created within one fingerprint TTL of each other (at most one
\* incident per fingerprint that is active within its TTL window).
C1_OneIncidentPerActiveFingerprint ==
    ~storeFailed =>
        \A r1 \in incidents, r2 \in incidents :
            (r1.fingerprint = r2.fingerprint /\ r1.id # r2.id)
                => Abs(r1.created_at - r2.created_at) >= FINGERPRINT_TTL

\* C9: with the key-value store down, check_duplicate returns (not duplicate,
\* no id), check_rate_limit returns (allowed, limit), neither raises, and a
\* webhook request is accepted with one incident created per firing alert.
C9_StoreFailuresFailOpen ==
    /\ (last.op = "check_duplicate" /\ ~last.store_ok)
          => last.ret = [raised |-> FALSE, is_duplicate |-> FALSE, existing_id |-> None]
    /\ (last.op = "check_rate_limit" /\ ~last.store_ok)
          => last.ret = [raised |-> FALSE, is_allowed |-> TRUE,
                         remaining |-> rate_limit_per_minute]
    /\ (response.status # "none" /\ ~response.store_ok)
          => /\ response.status = "accepted"
             /\ response.incidents_created = response.firing

\* a request was accepted and created an incident with the store down although
\* the fingerprint of that incident is registered and live, and the limiter
\* was asked with the store down
C9_Witness ==
    /\ last.op = "check_rate_limit" /\ ~last.store_ok
    /\ response.status = "accepted" /\ ~response.store_ok
    /\ response.incidents_created >= 1
    /\ \E r \in incidents : RedisGet(fpStore, r.fingerprint) # None

\* C10: for every client, at most rate_limit_per_minute webhook requests of one
\* window are processed into incidents.
C10_RateLimitedPerSource ==
    \A c \in Clients, t \in 0..MaxTime :
        Cardinality({i \in DOMAIN requests :
                        /\ requests[i].client = c
                        /\ requests[i].at >= t
                        /\ requests[i].at < t + window_seconds
                        /\ requests[i].created > 0}) <= rate_limit_per_minute


(***************************************************************************)
(* Properties of the workflow, checked under SpecWorkflow.                  *)
(***************************************************************************)
\* the step is in result["steps_completed"]
StepDone(name) ==
    \E i \in 1..Len(result.steps_completed) : result.steps_completed[i] = name

\* execute_remediation has been invoked: it is awaited, or it ran
ExecuteInvoked ==
    \/ pc = "execute_remediation"
    \/ StepDone("remediation_executed")
    \/ failed_activity = "execute_remediation"

\* the run reached the close step
ReachedClose ==
    \/ pc = "close_incident"
    \/ failed_activity = "close_incident"
    \/ self.status = "completed"

\* C2: execute_remediation is invoked, and the cluster mutated, only if the
\* policy endpoint answered allow=true and, when the decision requires
\* approval, the approval step returned approved=true; an unreachable endpoint
\* or an answer without allow never leads to an execution.
C2_ExecuteOnlyIfAllowedAndApproved ==
    (ExecuteInvoked \/ mutations # <<>>) =>
        /\ opaResponse.kind = "result"
        /\ Get(opaResponse, "allow", FALSE)
        /\ result.remediation_allowed
        /\ result.requires_approval = Get(opaResponse, "requires_approval", TRUE)
        /\ result.requires_approval =>
               ("approval_granted" \in result.keys /\ result.approval_granted)

C2_Witness ==
    /\ pc = "execute_remediation"
    /\ result.requires_approval
    /\ result.approval_granted
    /\ opaResponse.kind = "result"

\* C3: whenever execute_remediation is invoked, the blast-radius score of the
\* run is strictly below remediation_max_blast_radius.
C3_ExecuteOnlyIfBlastRadiusAcceptable ==
    (ExecuteInvoked \/ mutations # <<>>) =>
        /\ locals.blast_radius.score < remediation_max_blast_radius
        /\ locals.blast_radius.is_acceptable

\* the state machine of the specification: the successors of each status
SpecifiedSuccessors(s) ==
    CASE s = "initialized" -> {"collecting_evidence"}
      [] s = "collecting_evidence" -> {"building_graph"}
      [] s = "building_graph" -> {"analyzing"}
      [] s = "analyzing" -> {"generating_runbook"}
      [] s = "generating_runbook" -> {"evaluating_policy"}
      [] s = "evaluating_policy" -> {"remediating", "approval_denied",
                                     "creating_ticket", "closing"}
      [] s = "remediating" -> {"verifying"}
      [] s = "verifying" -> {"creating_ticket", "closing"}
      [] s = "approval_denied" -> {"creating_ticket", "closing"}
      [] s = "creating_ticket" -> {"closing"}
      [] s = "closing" -> {"completed"}
      [] OTHER -> {}

\* C4: the values status() returns over a run form a path of the specified
\* state machine from initialized; the failure value (read here as the
\* specification's failed, whatever message follows it) is terminal and is the
\* only other value.
C4_StatusFollowsStateMachine ==
    /\ statusSeen[1] = "initialized"
    /\ \A i \in 1..(Len(statusSeen) - 1) :
           \/ statusSeen[i + 1] \in SpecifiedSuccessors(statusSeen[i])
           \/ /\ statusSeen[i + 1] = FailedStatus
              /\ statusSeen[i] \notin {FailedStatus, "completed"}

\* C5: the run ends in failed only when graph building or hypothesis
\* generation failed permanently; the permanent failure of any other activity
\* leaves the run going to the close step.
C5_AbortsOnlyOnGraphOrHypothesisFailure ==
    failed_activity # None =>
        \/ failed_activity \in {"build_evidence_graph", "generate_hypotheses"}
        \/ result.status # "failed" /\ self.status # FailedStatus

\* C6: in a run that reached the close step, the ticket step was executed
\* exactly if the policy disallowed the action, the approval was denied, the
\* remediation failed or the verification failed.
C6_TicketIffNotRemediated ==
    ReachedClose =>
        (StepDone("ticket_created") <=>
            \/ ~result.remediation_allowed
            \/ StepDone("approval_denied")
            \/ "remediation_success" \in result.keys /\ ~result.remediation_success
            \/ "verification_success" \in result.keys /\ ~result.verification_success)

\* a run that was remediated and verified successfully, at the close step
\* without a ticket
C6_Witness ==
    /\ self.status = "completed"
    /\ result.remediation_success
    /\ result.verification_success
    /\ ~StepDone("ticket_created")

\* C7: the close step writes resolved only when a remediation was executed
\* and its verification reported success, and closed in every other run; a
\* run whose policy decision is allow=false passes evaluating_policy, records
\* remediation_allowed=false, runs the ticket step and is persisted as closed.
C7_ResolvedOnlyWhenVerified ==
    /\ incidentRow \in {"open", "resolved", "closed"}
    /\ incidentRow = "resolved" =>
           StepDone("remediation_executed") /\ StepDone("verification")
           /\ result.verification_success
    /\ incidentRow = "closed" =>
           ~(StepDone("verification") /\ result.verification_success)
    /\ self.status = "completed" => incidentRow # "open"
    /\ (self.status = "completed" /\ opaResponse.kind # "none"
        /\ ~Get(opaResponse, "allow", FALSE)) =>
           /\ \E i \in 1..Len(statusSeen) : statusSeen[i] = "evaluating_policy"
           /\ ~result.remediation_allowed
           /\ StepDone("ticket_created")
           /\ incidentRow = "closed"

\* a completed run whose policy decision was allow=false
C7_Witness ==
    /\ self.status = "completed"
    /\ opaResponse.kind = "result"
    /\ "allow" \in opaResponse.keys
    /\ ~opaResponse.allow
    /\ incidentRow = "closed"

\* C8: no idempotency key is applied to the cluster more than once.
C8_MutationAtMostOncePerKey ==
    \A i, j \in 1..Len(mutations) : mutations[i] = mutations[j] => i = j


\* the approval step has returned
ApprovalReturned == "approval_granted" \in result.keys

\* C11: when the approval request was posted to the chat sink, the step
\* returns approved=true exactly if the approver answered approve within the
\* bound, and the run then goes on to execute the remediation.
C11_ApprovalFollowsApproverAnswer ==
    (ApprovalReturned /\ chat.posted) =>
        /\ result.approval_granted <=> chat.answer = "approve"
        /\ chat.answer = "approve" =>
               (ExecuteInvoked \/ pc = "returned" \/ failed_activity # None)

\* C12: approval is granted without an answer from the chat sink only in
\* development with remediation_auto_approve_dev enabled; otherwise a grant
\* needs the approver's approve, and an unconfigured or failing chat sink
\* yields approved=false.
C12_BypassOnlyWithAutoApproveDev ==
    ApprovalReturned =>
        /\ result.approval_granted =>
               \/ settings.app_env = "development"
                  /\ settings.remediation_auto_approve_dev
               \/ chat.posted /\ chat.answer = "approve"
        /\ (settings.app_env # "development" /\ ~chat.posted) =>
               ~result.approval_granted


(***************************************************************************)
(* Properties of the library functions, checked under SpecFunctions.       *)
(***************************************************************************)
\* every listed pod is Running with Ready=True
PodsAllHealthy(listing) ==
    /\ ~listing.error
    /\ \A i \in 1..Len(listing.items) :
           listing.items[i].phase = "Running" /\ listing.items[i].ready = "True"

\* C13: verify returns metrics_improved = error improved or restart improved
\* or all pods healthy, and success = metrics_improved and all pods healthy;
\* success is false when a listed pod is unhealthy.
C13_VerifyCombinesProbes ==
    call.op = "verify" =>
        LET improved == \/ call.error_probe = "improved"
                        \/ call.restart_probe = "improved"
                        \/ PodsAllHealthy(call.listing)
        IN /\ Truthy(call.ret.metrics_improved) <=> improved
           /\ Truthy(call.ret.success) <=> (improved /\ PodsAllHealthy(call.listing))


\* the hypothesis without the fields rank assigns
Unranked(h) == [f \in DOMAIN h \ {"final_score", "rank"} |-> h[f]]

AllConditionsMatch(i, signals) ==
    /\ Len(DIAGNOSIS_RULES[i].conditions) > 0
    /\ \A c \in 1..Len(DIAGNOSIS_RULES[i].conditions) :
           ConditionMatches(DIAGNOSIS_RULES[i].conditions[c], signals)

\* C15: generate_hypotheses returns exactly one hypothesis for each rule whose
\* conditions all match and none for any other rule; when no rule fires
\* (empty evidence included) it returns exactly one hypothesis, of category
\* unknown at confidence 0.30; the result is never empty and never holds the
\* unknown hypothesis next to a rule's.
C15_OneHypothesisPerFiredRule ==
    call.op = "generate_hypotheses" =>
        LET ret == call.ret
            signals == _extract_signals(call.evidence)
            fired == {i \in 1..Len(DIAGNOSIS_RULES) : AllConditionsMatch(i, signals)}
            of(i) == {k \in 1..Len(ret) : ret[k].rule_id = DIAGNOSIS_RULES[i].id}
        IN /\ ret # <<>>
           /\ \A i \in 1..Len(DIAGNOSIS_RULES) :
                  Cardinality(of(i)) = IF i \in fired THEN 1 ELSE 0
           /\ fired = {} =>
                  /\ Len(ret) = 1
                  /\ ret[1].category = "unknown"
                  /\ ret[1].confidence = 300
           /\ fired # {} =>
                  /\ Len(ret) = Cardinality(fired)
                  /\ \A k \in 1..Len(ret) : ret[k].category # "unknown"

\* two rules fired on the same evidence
C15_Witness ==
    /\ call.op = "generate_hypotheses"
    /\ Len(call.ret) = 2
    /\ call.ret[1].rule_id # call.ret[2].rule_id

\* no rule fired on evidence that is not empty
C15_WitnessUnknown ==
    /\ call.op = "generate_hypotheses"
    /\ call.evidence # <<>>
    /\ call.ret[1].category = "unknown"

\* the evidence holds a pod waiting in CrashLoopBackOff and a deployment
\* change flagged as recent
CrashLoopAfterDeploy(evidence) ==
    /\ \E i \in 1..Len(evidence) :
           /\ evidence[i].evidence_type = "kubernetes_pod"
           /\ evidence[i].waiting_reason = "CrashLoopBackOff"
    /\ \E i \in 1..Len(evidence) :
           /\ evidence[i].evidence_type = "deploy_change"
           /\ evidence[i].is_recent_change

\* the evidence holds a pod terminated with OOMKilled
HasOomKilledPod(evidence) ==
    \E i \in 1..Len(evidence) :
        /\ evidence[i].evidence_type = "kubernetes_pod"
        /\ evidence[i].terminated_reason = "OOMKilled"

\* the hypothesis ranked first once the ranker has run on the engine's result
TopRanked == rank(call.ret)[1]

\* C16 as stated: for evidence containing a pod waiting in CrashLoopBackOff and
\* a recent deployment change, the top-ranked hypothesis after rules engine
\* and ranker has category bad_deployment, confidence >= 0.90 and
\* rollback_deployment as its first recommended action.
C16_TopIsBadDeploymentAtNinety ==
    (call.op = "generate_hypotheses" /\ CrashLoopAfterDeploy(call.evidence)) =>
        /\ TopRanked.rank = 1
        /\ TopRanked.category = "bad_deployment"
        /\ TopRanked.confidence >= 900
        /\ TopRanked.recommended_actions[1] = "rollback_deployment"

\* C16 amended: for such evidence with no pod terminated by OOMKilled, the
\* top-ranked hypothesis has category bad_deployment, confidence 0.88
\* (0.6 * 0.90 + 0.4 * (0.9 + 0.8) / 2) and rollback_deployment as its first
\* recommended action; with an OOMKilled pod the oom_killed hypothesis ranks
\* first and the bad_deployment hypothesis, still at 0.88, second.
C16_TopIsBadDeploymentAtEightyEight ==
    (call.op = "generate_hypotheses" /\ CrashLoopAfterDeploy(call.evidence)) =>
        LET ranked == rank(call.ret)
            k == IF HasOomKilledPod(call.evidence) THEN 2 ELSE 1
        IN /\ Len(ranked) >= k
           /\ ranked[k].rank = k
           /\ ranked[k].category = "bad_deployment"
           /\ ranked[k].confidence = 880
           /\ ranked[k].recommended_actions[1] = "rollback_deployment"
           /\ k = 2 => ranked[1].rule_id = "oom_killed"

\* the engine ran on a crash-looping pod and a recent deployment change alone
C16_Witness ==
    /\ call.op = "generate_hypotheses"
    /\ call.evidence = <<PodEvidence("CrashLoopBackOff", None), DeployEvidence(TRUE)>>
    /\ TopRanked.rule_id = "crashloop_recent_deploy"

\* C17: two alerts that agree on (source, alertname, namespace, service)
\* receive the same fingerprint whatever their other labels (such as pod) are,
\* and when the service is absent the service part of the fingerprint's input
\* is the empty string.
C17_FingerprintIgnoresOtherLabels ==
    call.op = "normalize_alertmanager" =>
        LET alert == call.alerts[1]
            other == call.alerts[2]
        IN /\ (/\ alert.alertname = other.alertname
               /\ alert.namespace = other.namespace
               /\ alert.service = other.service)
                  => call.ret[1].fingerprint = call.ret[2].fingerprint
           /\ alert.service = None => call.ret[1].fingerprint[4] = ""

\* C18: when a collector fails, at construction or while collecting, the
\* failure is recorded in errors and is not raised out of collect_all_evidence.
C18_CollectorFailureIsRecorded ==
    (call.op = "collect_all_evidence" /\ call.session_ok) =>
        /\ ~call.ret.raised
        /\ \A i \in 1..Len(CollectorNames) :
               call.outcomes[i] # "ok" =>
                   \E k \in 1..Len(call.ret.errors) :
                       call.ret.errors[k] = CollectorNames[i]

\* C19: once the graph build has upserted the entities and relations of
\* incident X, the subgraph query called with X's incident id and a depth of
\* at least 1 returns X's Incident node and every node within depth hops of it
\* (the Pod nodes it AFFECTS at least); it does not return an empty graph.
C19_SubgraphHoldsIncidentAndPods ==
    \A x \in IncidentIds :
        (/\ call.op = "get_incident_graph"
         /\ call.incident_id = <<x>>
         /\ \E n \in call.store.nodes :
                n.label = "Incident" /\ n.properties.id = <<"incident", x>>)
        => /\ <<"incident", x>> \in call.ret.nodes
           /\ SubgraphAll(call.store, {<<"incident", x>>}, call.depth)
                  \subseteq call.ret.nodes
           /\ \A r \in call.store.relationships :
                  (r.source = <<"incident", x>> /\ r.type = "AFFECTS")
                      => r.target \in call.ret.nodes

\* C20: a programmer error (a type or value error) raised by an activity,
\* under either retry policy, is not retried: no attempt that failed with
\* TypeError is followed by another attempt of the activity.
C20_ProgrammerErrorIsNotRetried ==
    [][~(\E effect \in BOOLEAN : ActivityRetried("TypeError", effect))]_vars

\* C21: the approval step has single-attempt semantics: within one run the
\* request_approval activity is started at most once, so neither a failure
\* nor a timeout of the step sends a second approval request.
C21_ApprovalStartedAtMostOnce ==
    pc = "request_approval" => attempt = 1

\* the number of times a step was recorded as completed
StepCount(name) ==
    Cardinality({i \in 1..Len(result.steps_completed) :
                    result.steps_completed[i] = name})

\* C22: a run in which the execute step acted on the cluster runs the
\* verification step afterwards, before the close step, and records exactly
\* one verification for the action; no run mutates the cluster and then
\* ends without verification.
C22_MutationIsVerified ==
    (pc = "returned" /\ mutations # <<>>) =>
        /\ StepCount("verification") = 1
        /\ \A i, j \in 1..Len(result.steps_completed) :
               (/\ result.steps_completed[i] = "verification"
                /\ result.steps_completed[j] = "incident_closed") => i < j

\* the cluster query of the blast-radius calculation failed: no client
\* configuration loaded, or reading the incident's deployment failed
ClusterQueryFailed(cluster) ==
    \/ ~cluster.config_ok
    \/ cluster.service # None /\ cluster.read.outcome # "ok"

\* C23: when the cluster query of the blast-radius calculation fails, an API
\* error on reading the incident's deployment included, the result is score
\* 100 with is_acceptable false, never a score below 100.
C23_BlastRadiusFailsClosed ==
    (call.op = "calculate_blast_radius" /\ ClusterQueryFailed(call.cluster)) =>
        /\ call.ret.score = 10000
        /\ ~call.ret.is_acceptable

\* C24: under fair scheduling, a run in which every external call of the
\* activities succeeds passes hypothesis generation and blast-radius
\* calculation, eventually executes the close step and reaches status
\* completed; it does not end in failed.
C24_RunCompletesWhenCallsSucceed ==
    <>(external_failed \/ self.status = "completed")

\* the handling of request h overlapped that of request g
Overlapped(h, g) ==
    \/ "overlaps" \in DOMAIN handlers[h] /\ g \in handlers[h].overlaps
    \/ "overlaps" \in DOMAIN handlers[g] /\ h \in handlers[g].overlaps

\* C25: when two webhook requests carrying alerts of the same fingerprint are
\* handled concurrently, then under every interleaving of their duplicate
\* check and incident insert at most one incident is created for the
\* fingerprint.
C25_ConcurrentRequestsCreateOneIncident ==
    \A h \in Handlers, g \in Handlers :
        (/\ h # g
         /\ Overlapped(h, g)
         /\ handlers[h].pc = "done" /\ handlers[h].incidents_created = 1
         /\ handlers[g].pc = "done" /\ handlers[g].incidents_created = 1)
        => handlers[h].incident.fingerprint # handlers[g].incident.fingerprint

\* the keys of the handler table of RemediationExecutor.execute; any other
\* action type returns success False, "Unknown action type"
action_handlers == {"restart_pod", "restart_deployment", "rollback_deployment",
                    "scale_replicas", "cordon_node"}

\* C26: a ticket is created only for unresolved outcomes: in a completed run
\* in which the create_ticket step was executed, the close step persists the
\* incident as closed, never as resolved.
C26_TicketOnlyWhenUnresolved ==
    (self.status = "completed" /\ StepDone("ticket_created")) =>
        incidentRow = "closed"


\* C27: the proposed action, the first recommended action of the top-ranked
\* hypothesis, is one of the five executable action types whenever it has been
\* sent to the policy gate and whenever execute_remediation is invoked.
C27_ProposedActionIsExecutable ==
    /\ locals.policy_result.proposed_action # None =>
           locals.policy_result.proposed_action \in action_handlers
    /\ pc = "execute_remediation" =>
           locals.policy_result.proposed_action \in action_handlers


\* C28: the rate-limit counter is a fixed window: a request that arrives while
\* the counter of its key is live counts in the current window and leaves the
\* expiry of the counter where the first request of the window put it.
C28_RateLimitWindowIsFixed ==
    [][\A c \in Clients :
          (/\ RateCount(c) > 0
           /\ rateStore'[c].count = rateStore[c].count + 1) =>
              rateStore'[c].expires = rateStore[c].expires]_vars


\* C29: whenever the hypotheses() query returns a non-empty list, every
\* hypothesis in it has a rank of at least 1 and the ranks are 1..N; once the
\* ranking step is done the query returns the ranked list.
C29_QueryReturnsRankedHypotheses ==
    /\ self.hypotheses # <<>> =>
           /\ \A i \in 1..Len(self.hypotheses) : self.hypotheses[i].rank >= 1
           /\ {self.hypotheses[i].rank : i \in 1..Len(self.hypotheses)} =
                  1..Len(self.hypotheses)
    /\ StepDone("hypothesis_ranking") => self.hypotheses = locals.ranked_hypotheses


\* C30: every rule of the static catalog can fire: for the rule a pass of the
\* rule loop is about, there is a list of evidence whose extracted signals
\* match all conditions of the rule, so that its hypothesis is emitted.
C30_EveryRuleCanFire ==
    call.op = "_match_rule" =>
        \E evidence \in EvidenceLists :
            _match_rule(call.rule, _extract_signals(evidence)).matched

====
